---- MODULE Spec2Model ----
(***************************************************************************)
(* A model of the Bun HTTP gateway of src/index.ts: the fetch callback of  *)
(* Bun.serve (CORS preflight, method check, exact-path routing, the single *)
(* try/catch) and the four handlers handleGenerateText,                    *)
(* handleGenerateFromImage, handleGenerateFromDocument and                 *)
(* handleGenerateFromAudio, each run up to its await of                    *)
(* model.generateContent and resumed when the Model Client settles.        *)
(*                                                                         *)
(* Every connection r carries one request.  Spec serves one connection     *)
(* (connection 1) over the full request alphabet Requests; SpecConc serves *)
(* MaxConns connections concurrently over the smaller alphabet             *)
(* ConcRequests, interleaving their steps at the await points.             *)
(***************************************************************************)
EXTENDS Naturals, Sequences, FiniteSets, TLC

VARIABLES
    env,      \* configuration loaded once at startup (model identifiers)
    pc,       \* pc[r]: "idle" | "calling" (awaiting generateContent) | "done"
    req,      \* req[r]: <<>> or <<request>>, the request fetch was called with
    handler,  \* handler[r]: "none" or the handler fetch invoked
    calls,    \* calls[r]: sequence of Model Client invocations [model, payload]
    settled,  \* settled[r]: <<>> or <<outcome of the Model Client call>>
    resp,     \* resp[r]: <<>> or <<response returned by fetch>>
    logged    \* logged[r]: sequence of errors written by console.error

vars == <<env, pc, req, handler, calls, settled, resp, logged>>

(***************************************************************************)
(* Bounds                                                                  *)
(***************************************************************************)
MaxConns == 2

Conns == 1..MaxConns

(***************************************************************************)
(* Configuration (env.GEMINI_MODEL, env.GEMINI_VISION_MODEL)               *)
(***************************************************************************)
Envs ==
    { [GEMINI_MODEL |-> "gemini-2.0-flash", GEMINI_VISION_MODEL |-> "gemini-2.5-pro"],
      [GEMINI_MODEL |-> "gemini-pro", GEMINI_VISION_MODEL |-> "gemini-pro-vision"] }

(***************************************************************************)
(* JavaScript objects used for headers.  A Headers instance keeps its      *)
(* entries in an internal list and has no own enumerable properties; a     *)
(* plain object keeps them as own enumerable properties.                   *)
(***************************************************************************)
NewHeaders(init) == [class |-> "Headers", list |-> init, props |-> {}]

ObjectLiteral(props) == [class |-> "Object", list |-> {}, props |-> props]

\* { ...obj }: CopyDataProperties copies the own enumerable properties
Spread(obj) == obj.props

\* { ...obj, name: value }: a later key overrides a spread one
SpreadWith(obj, name, value) ==
    ObjectLiteral({p \in Spread(obj) : p[1] # name} \cup {<<name, value>>})

\* the header list a Response gets from the `headers` member of its init
ResponseHeaders(h) == IF h.class = "Headers" THEN h.list ELSE h.props

CorsHeaders ==
    NewHeaders({ <<"Access-Control-Allow-Origin", "*">>,
                 <<"Access-Control-Allow-Methods", "GET, POST, PUT, DELETE, OPTIONS">>,
                 <<"Access-Control-Allow-Headers", "Content-Type, Authorization">> })

\* new Response(null, { headers })
EmptyResponse(headers) ==
    [status |-> 200, body |-> <<>>, headers |-> ResponseHeaders(headers)]

\* new Response(JSON.stringify(body), { status, headers: { ...headers, "Content-Type": ... } })
JsonResponse(status, body, headers) ==
    [status |-> status, body |-> <<body>>,
     headers |-> ResponseHeaders(SpreadWith(headers, "Content-Type", "application/json"))]

(***************************************************************************)
(* The request alphabet                                                    *)
(***************************************************************************)
Methods == {"OPTIONS", "GET", "POST", "DELETE"}

RegisteredPaths ==
    { "/api/generate-text", "/api/generate-from-image",
      "/api/generate-from-document", "/api/generate-from-audio" }

Pathnames == RegisteredPaths \cup {"/api/generate-text/", "/api/unknown"}

Searches == {"", "?x=1"}

ContentTypes ==
    { "", "application/json", "application/json; charset=utf-8", "application/jsonl",
      "text/plain", "multipart/form-data; boundary=x" }

\* declared MIME types of uploaded files: the fifteen the handlers list, and
\* near misses (parameters, upper case, an unrelated type, no type)
MimeTypes ==
    { "image/jpeg", "image/png", "image/webp", "image/heic", "image/heif",
      "application/pdf", "application/msword",
      "application/vnd.openxmlformats-officedocument.wordprocessingml.document",
      "text/plain", "text/markdown",
      "audio/mpeg", "audio/mp4", "audio/wav", "audio/ogg", "audio/webm",
      "image/jpeg; charset=utf-8", "IMAGE/JPEG", "text/plain; charset=utf-8",
      "application/octet-stream", "" }

FileFields == {"image", "document", "audio"}

Texts == {"", "hello"}

\* the upload limit: limits.fileSize of the multer configuration, the
\* "10MB limit on all file uploads" of the README
fileSize == 10 * 1024 * 1024

FileSizes == {fileSize, fileSize + 1}

Files ==
    [field : FileFields, type : MimeTypes, name : {"upload.bin"}, size : FileSizes]

\* a body is JSON text holding an object with or without `text`, the JSON
\* text `null`, a multipart form with or without `text` and with at most one
\* file part, or bytes that are neither
Bodies ==
    [kind : {"json"}, text : {{}} \cup {{t} : t \in Texts}, file : {{}}]
    \cup [kind : {"jsonNull", "garbage"}, text : {{}}, file : {{}}]
    \cup [kind : {"form"}, text : {{}} \cup {{t} : t \in Texts},
          file : {{}} \cup {{f} : f \in Files}]

Requests ==
    [method : Methods, url : [pathname : Pathnames, search : Searches],
     contentType : ContentTypes, body : Bodies]

\* what the Model Client can resolve with, and what it can reject with
ModelTexts == {"world", ""}

FailureDetails == {"429 quota exceeded", "fetch failed: ECONNRESET"}

(***************************************************************************)
(* Request accessors                                                       *)
(***************************************************************************)
\* new URL(req.url).pathname: the path without the query string
Pathname(url) == url.pathname

\* IncludesApplicationJson comparing the whole header with "application/json"
IncludesApplicationJsonExact(contentType) == contentType = "application/json"

\* contentType.includes("application/json"): a substring test
IncludesApplicationJson(contentType) ==
    contentType \in {"application/json", "application/json; charset=utf-8",
                     "application/jsonl"}

\* await req.json(): <<"ok", value>> or <<"throw", error>>; the value is
\* the parsed body, "null" for the JSON text null
ReqJson(request) ==
    CASE request.body.kind = "json" -> [ok |-> TRUE, null |-> FALSE, error |-> ""]
      [] request.body.kind = "jsonNull" -> [ok |-> TRUE, null |-> TRUE, error |-> ""]
      [] OTHER -> [ok |-> FALSE, null |-> FALSE, error |-> "SyntaxError: JSON Parse error"]

\* await req.formData(): needs a multipart Content-Type and a multipart body
ReqFormData(request) ==
    IF request.contentType = "multipart/form-data; boundary=x" /\ request.body.kind = "form"
    THEN [ok |-> TRUE, error |-> ""]
    ELSE [ok |-> FALSE, error |-> "TypeError: FormData parse error"]

\* !text for a string that may be undefined
Falsy(text) == \A t \in text : t = ""

\* FormGetFile taking the file part of the form whatever its field name
FormGetAnyFile(request, name) == request.body.file

\* formData.get(name) as File | null
FormGetFile(request, name) == {f \in request.body.file : f.field = name}

(***************************************************************************)
(* What a handler does up to its first await of the Model Client: it       *)
(* returns a response, suspends in model.generateContent, or throws.       *)
(***************************************************************************)
Return(response) ==
    [kind |-> "return", response |-> <<response>>, call |-> <<>>, error |-> ""]

Await(model, payload) ==
    [kind |-> "await", response |-> <<>>,
     call |-> <<[model |-> model, payload |-> payload]>>, error |-> ""]

Throw(error) ==
    [kind |-> "throw", response |-> <<>>, call |-> <<>>, error |-> error]

\* the argument of generateContent: a string, or [text, inlineData part]
Payload(kind, text, file) ==
    [kind |-> kind, text |-> text, name |-> file.name, type |-> file.type,
     size |-> file.size]

NoFile == [name |-> "", type |-> "", size |-> 0]

\* allowedImageTypes as matched after lower-casing the declared type
allowedImageTypesAnyCase ==
    {"image/jpeg", "image/png", "image/webp", "image/heic", "image/heif", "IMAGE/JPEG"}

allowedImageTypes ==
    {"image/jpeg", "image/png", "image/webp", "image/heic", "image/heif"}

allowedDocumentTypes ==
    { "application/pdf", "application/msword",
      "application/vnd.openxmlformats-officedocument.wordprocessingml.document",
      "text/plain", "text/markdown" }

allowedAudioTypes ==
    {"audio/mpeg", "audio/mp4", "audio/wav", "audio/ogg", "audio/webm"}

TextRequired(headers) ==
    Return(JsonResponse(400, [error |-> "Text prompt is required"], headers))

handleGenerateText(request, headers, e) ==
    IF ~IncludesApplicationJson(request.contentType)
    THEN Return(JsonResponse(400, [error |-> "Content type must be application/json"],
                             headers))
    ELSE LET body == ReqJson(request) IN
         IF ~body.ok THEN Throw(body.error)
         ELSE IF body.null THEN Throw("TypeError: null is not an object")
         ELSE IF Falsy(request.body.text) THEN TextRequired(headers)
         ELSE Await(e.GEMINI_MODEL,
                    Payload("text", CHOOSE t \in request.body.text : TRUE, NoFile))

handleGenerateFromImage(request, headers, e) ==
    LET formData == ReqFormData(request)
        text == request.body.text
        imageFile == FormGetFile(request, "image")
    IN  IF ~formData.ok THEN Throw(formData.error)
        ELSE IF Falsy(text) THEN TextRequired(headers)
        ELSE IF imageFile = {}
        THEN Return(JsonResponse(400, [error |-> "Image file is required"], headers))
        ELSE LET file == CHOOSE f \in imageFile : TRUE IN
             IF file.type \notin allowedImageTypes
             THEN Return(JsonResponse(400,
                    [error |-> "Invalid image format. Supported formats: JPEG, PNG, WEBP, HEIC, HEIF"],
                    headers))
             ELSE Await(e.GEMINI_VISION_MODEL,
                        Payload("text+inlineData", CHOOSE t \in text : TRUE, file))

handleGenerateFromDocument(request, headers, e) ==
    LET formData == ReqFormData(request)
        text == request.body.text
        documentFile == FormGetFile(request, "document")
    IN  IF ~formData.ok THEN Throw(formData.error)
        ELSE IF Falsy(text) THEN TextRequired(headers)
        ELSE IF documentFile = {}
        THEN Return(JsonResponse(400, [error |-> "Document file is required"], headers))
        ELSE LET file == CHOOSE f \in documentFile : TRUE IN
             IF file.type \notin allowedDocumentTypes
             THEN Return(JsonResponse(400,
                    [error |-> "Invalid document format. Supported formats: PDF, DOC, DOCX, TXT, MD"],
                    headers))
             ELSE Await(e.GEMINI_MODEL,
                        Payload("documentPrompt", CHOOSE t \in text : TRUE,
                                [file EXCEPT !.size = 0]))

\* handleGenerateFromAudio looking at the file before the text
handleGenerateFromAudioFileFirst(request, headers, e) ==
    LET formData == ReqFormData(request)
        text == request.body.text
        audioFile == FormGetFile(request, "audio")
    IN  IF ~formData.ok THEN Throw(formData.error)
        ELSE IF audioFile = {}
        THEN Return(JsonResponse(400, [error |-> "Audio file is required"], headers))
        ELSE LET file == CHOOSE f \in audioFile : TRUE IN
             IF file.type \notin allowedAudioTypes
             THEN Return(JsonResponse(400,
                    [error |-> "Invalid audio format. Supported formats: MP3, MP4, WAV, OGG, WEBM"],
                    headers))
             ELSE IF Falsy(text) THEN TextRequired(headers)
             ELSE Await(e.GEMINI_MODEL,
                        Payload("audioPrompt", CHOOSE t \in text : TRUE, file))

handleGenerateFromAudio(request, headers, e) ==
    LET formData == ReqFormData(request)
        text == request.body.text
        audioFile == FormGetFile(request, "audio")
    IN  IF ~formData.ok THEN Throw(formData.error)
        ELSE IF Falsy(text) THEN TextRequired(headers)
        ELSE IF audioFile = {}
        THEN Return(JsonResponse(400, [error |-> "Audio file is required"], headers))
        ELSE LET file == CHOOSE f \in audioFile : TRUE IN
             IF file.type \notin allowedAudioTypes
             THEN Return(JsonResponse(400,
                    [error |-> "Invalid audio format. Supported formats: MP3, MP4, WAV, OGG, WEBM"],
                    headers))
             ELSE Await(e.GEMINI_MODEL,
                        Payload("audioPrompt", CHOOSE t \in text : TRUE, file))

\* EnvelopeModel reporting the text model for every handler
EnvelopeModelTextOnly(h, e) == e.GEMINI_MODEL

\* the model identifier a handler writes into its success envelope
EnvelopeModel(h, e) ==
    IF h = "image" THEN e.GEMINI_VISION_MODEL ELSE e.GEMINI_MODEL

\* SuccessResponse leaving the model identifier out of the envelope
SuccessResponseNoModel(h, text, headers, e) ==
    JsonResponse(200, [success |-> TRUE, data |-> text], headers)

\* the handler's return after generateContent resolved with `text`
SuccessResponse(h, text, headers, e) ==
    JsonResponse(200, [success |-> TRUE, data |-> text, model |-> EnvelopeModel(h, e)],
                 headers)

\* CatchResponse echoing the caught error to the caller
CatchResponseLeaky(h, error, headers) ==
    JsonResponse(500, [success |-> FALSE, error |-> error], headers)

\* the catch block of fetch
CatchResponse(h, error, headers) ==
    JsonResponse(500, [success |-> FALSE, error |-> "Internal server error"], headers)

(***************************************************************************)
(* fetch: preflight, method check, exact-path routing                      *)
(***************************************************************************)
\* Route with the trailing slash of the path dropped before matching
RouteTrailingSlash(method, pathname) ==
    IF method = "OPTIONS" THEN "preflight"
    ELSE IF method # "POST" THEN "405"
    ELSE IF pathname \in {"/api/generate-text", "/api/generate-text/"} THEN "text"
    ELSE IF pathname = "/api/generate-from-image" THEN "image"
    ELSE IF pathname = "/api/generate-from-document" THEN "document"
    ELSE IF pathname = "/api/generate-from-audio" THEN "audio"
    ELSE "404"

\* Route with the preflight test placed after the routes, on known paths only
RoutePreflightKnownOnly(method, pathname) ==
    IF method \notin {"POST", "OPTIONS"} THEN "405"
    ELSE IF pathname \notin { "/api/generate-text", "/api/generate-from-image",
                              "/api/generate-from-document", "/api/generate-from-audio" }
    THEN "404"
    ELSE IF method = "OPTIONS" THEN "preflight"
    ELSE IF pathname = "/api/generate-text" THEN "text"
    ELSE IF pathname = "/api/generate-from-image" THEN "image"
    ELSE IF pathname = "/api/generate-from-document" THEN "document"
    ELSE "audio"

Route(method, pathname) ==
    IF method = "OPTIONS" THEN "preflight"
    ELSE IF method # "POST" THEN "405"
    ELSE IF pathname = "/api/generate-text" THEN "text"
    ELSE IF pathname = "/api/generate-from-image" THEN "image"
    ELSE IF pathname = "/api/generate-from-document" THEN "document"
    ELSE IF pathname = "/api/generate-from-audio" THEN "audio"
    ELSE "404"

RouteOf(request) == Route(request.method, Pathname(request.url))

(***************************************************************************)
(* Actions                                                                 *)
(***************************************************************************)
Idle == [r \in Conns |-> "idle"]

Init ==
    /\ env \in Envs
    /\ pc = Idle
    /\ req = [r \in Conns |-> <<>>]
    /\ handler = [r \in Conns |-> "none"]
    /\ calls = [r \in Conns |-> <<>>]
    /\ settled = [r \in Conns |-> <<>>]
    /\ resp = [r \in Conns |-> <<>>]
    /\ logged = [r \in Conns |-> <<>>]

\* Finish on a server that takes no request while a Model Client call is
\* pending on any connection
FinishSerial(r, request, h, outcome) ==
    /\ pc[r] = "idle"
    /\ \A q \in Conns : pc[q] # "calling"
    /\ req' = [req EXCEPT ![r] = <<request>>]
    /\ handler' = [handler EXCEPT ![r] = h]
    /\ calls' = [calls EXCEPT ![r] = @ \o outcome.call]
    /\ pc' = [pc EXCEPT ![r] = IF outcome.kind = "await" THEN "calling" ELSE "done"]
    /\ resp' = [resp EXCEPT ![r] =
                  CASE outcome.kind = "return" -> outcome.response
                    [] outcome.kind = "throw" ->
                         <<CatchResponse(h, outcome.error, CorsHeaders)>>
                    [] OTHER -> <<>>]
    /\ logged' = [logged EXCEPT ![r] =
                    IF outcome.kind = "throw" THEN Append(@, outcome.error) ELSE @]
    /\ UNCHANGED <<env, settled>>

\* fetch(req) runs on connection r with handler h (or none) reaching `outcome`:
\* a returned response ends the request, an await suspends it in the Model
\* Client, a throw lands in the catch block of fetch
Finish(r, request, h, outcome) ==
    /\ pc[r] = "idle"
    /\ req' = [req EXCEPT ![r] = <<request>>]
    /\ handler' = [handler EXCEPT ![r] = h]
    /\ calls' = [calls EXCEPT ![r] = @ \o outcome.call]
    /\ pc' = [pc EXCEPT ![r] = IF outcome.kind = "await" THEN "calling" ELSE "done"]
    /\ resp' = [resp EXCEPT ![r] =
                  CASE outcome.kind = "return" -> outcome.response
                    [] outcome.kind = "throw" ->
                         <<CatchResponse(h, outcome.error, CorsHeaders)>>
                    [] OTHER -> <<>>]
    /\ logged' = [logged EXCEPT ![r] =
                    IF outcome.kind = "throw" THEN Append(@, outcome.error) ELSE @]
    /\ UNCHANGED <<env, settled>>

\* Each path of fetch takes its request from the alphabet A.
Preflight(r, A) ==
    /\ pc[r] = "idle"
    /\ \E request \in A :
         /\ RouteOf(request) = "preflight"
         /\ Finish(r, request, "none", Return(EmptyResponse(CorsHeaders)))

MethodNotAllowed(r, A) ==
    /\ pc[r] = "idle"
    /\ \E request \in A :
         /\ RouteOf(request) = "405"
         /\ Finish(r, request, "none",
                   Return(JsonResponse(405, [error |-> "Method not allowed"],
                                       CorsHeaders)))

RouteNotFound(r, A) ==
    /\ pc[r] = "idle"
    /\ \E request \in A :
         /\ RouteOf(request) = "404"
         /\ Finish(r, request, "none",
                   Return(JsonResponse(404, [error |-> "Route not found"],
                                       CorsHeaders)))

GenerateText(r, A) ==
    /\ pc[r] = "idle"
    /\ \E request \in A :
         /\ RouteOf(request) = "text"
         /\ Finish(r, request, "text", handleGenerateText(request, CorsHeaders, env))

GenerateFromImage(r, A) ==
    /\ pc[r] = "idle"
    /\ \E request \in A :
         /\ RouteOf(request) = "image"
         /\ Finish(r, request, "image",
                   handleGenerateFromImage(request, CorsHeaders, env))

GenerateFromDocument(r, A) ==
    /\ pc[r] = "idle"
    /\ \E request \in A :
         /\ RouteOf(request) = "document"
         /\ Finish(r, request, "document",
                   handleGenerateFromDocument(request, CorsHeaders, env))

GenerateFromAudio(r, A) ==
    /\ pc[r] = "idle"
    /\ \E request \in A :
         /\ RouteOf(request) = "audio"
         /\ Finish(r, request, "audio",
                   handleGenerateFromAudio(request, CorsHeaders, env))

\* model.generateContent resolves: the handler builds its success envelope
ModelResolve(r, text) ==
    /\ pc[r] = "calling"
    /\ pc' = [pc EXCEPT ![r] = "done"]
    /\ settled' = [settled EXCEPT ![r] = <<[ok |-> TRUE, value |-> text]>>]
    /\ resp' = [resp EXCEPT ![r] = <<SuccessResponse(handler[r], text, CorsHeaders, env)>>]
    /\ UNCHANGED <<env, req, handler, calls, logged>>

\* model.generateContent rejects: the rejection propagates through the
\* awaiting handler to the catch block of fetch
ModelReject(r, detail) ==
    /\ pc[r] = "calling"
    /\ pc' = [pc EXCEPT ![r] = "done"]
    /\ settled' = [settled EXCEPT ![r] = <<[ok |-> FALSE, value |-> detail]>>]
    /\ resp' = [resp EXCEPT ![r] = <<CatchResponse(handler[r], detail, CorsHeaders)>>]
    /\ logged' = [logged EXCEPT ![r] = Append(@, detail)]
    /\ UNCHANGED <<env, req, handler, calls>>

\* one connection, the full request alphabet
Next ==
    \/ Preflight(1, Requests)
    \/ MethodNotAllowed(1, Requests)
    \/ RouteNotFound(1, Requests)
    \/ GenerateText(1, Requests)
    \/ GenerateFromImage(1, Requests)
    \/ GenerateFromDocument(1, Requests)
    \/ GenerateFromAudio(1, Requests)
    \/ \E text \in ModelTexts : ModelResolve(1, text)
    \/ \E detail \in FailureDetails : ModelReject(1, detail)

Spec == Init /\ [][Next]_vars

(***************************************************************************)
(* MaxConns requests in flight at once.  Bun runs fetch callbacks on one   *)
(* event loop: a callback runs until it returns or awaits, so the steps    *)
(* of different connections interleave at the awaits of the Model Client.  *)
(***************************************************************************)
Post(pathname, contentType, body) ==
    [method |-> "POST", url |-> [pathname |-> pathname, search |-> ""],
     contentType |-> contentType, body |-> body]

Form(text, field, type) ==
    [kind |-> "form", text |-> {text},
     file |-> {[field |-> field, type |-> type, name |-> "upload.bin", size |-> fileSize]}]

NoBody == [kind |-> "garbage", text |-> {}, file |-> {}]

ConcRequests ==
    { Post("/api/generate-text", "application/json",
           [kind |-> "json", text |-> {"hello"}, file |-> {}]),
      Post("/api/generate-text", "application/json",
           [kind |-> "json", text |-> {}, file |-> {}]),
      Post("/api/generate-from-image", "multipart/form-data; boundary=x",
           Form("hello", "image", "image/png")),
      Post("/api/generate-from-document", "multipart/form-data; boundary=x",
           Form("hello", "document", "application/pdf")),
      Post("/api/generate-from-audio", "multipart/form-data; boundary=x",
           Form("hello", "audio", "audio/mpeg")),
      Post("/api/unknown", "", NoBody),
      [method |-> "GET", url |-> [pathname |-> "/api/generate-text", search |-> ""],
       contentType |-> "", body |-> NoBody],
      [method |-> "OPTIONS", url |-> [pathname |-> "/api/unknown", search |-> ""],
       contentType |-> "", body |-> NoBody] }

NextConc ==
    \E r \in Conns :
        \/ Preflight(r, ConcRequests)
        \/ MethodNotAllowed(r, ConcRequests)
        \/ RouteNotFound(r, ConcRequests)
        \/ GenerateText(r, ConcRequests)
        \/ GenerateFromImage(r, ConcRequests)
        \/ GenerateFromDocument(r, ConcRequests)
        \/ GenerateFromAudio(r, ConcRequests)
        \/ \E text \in ModelTexts : ModelResolve(r, text)
        \/ \E detail \in FailureDetails : ModelReject(r, detail)

SpecConc == Init /\ [][NextConc]_vars

(***************************************************************************)
(* Vocabulary of the properties                                            *)
(***************************************************************************)
Received(r) == req[r] # <<>>

Answered(r) == resp[r] # <<>>

Request(r) == req[r][1]

Response(r) == resp[r][1]

ResponseBody(r) == resp[r][1].body[1]

Succeeded(r) == settled[r] # <<>> /\ settled[r][1].ok

Failed(r) == settled[r] # <<>> /\ ~settled[r][1].ok

\* the four paths of the HTTP surface
KnownPaths ==
    { "/api/generate-text", "/api/generate-from-image",
      "/api/generate-from-document", "/api/generate-from-audio" }

\* the handler the HTTP surface assigns to a path
HandlerOfPath(pathname) ==
    CASE pathname = "/api/generate-text" -> "text"
      [] pathname = "/api/generate-from-image" -> "image"
      [] pathname = "/api/generate-from-document" -> "document"
      [] pathname = "/api/generate-from-audio" -> "audio"
      [] OTHER -> "none"

\* a POST to a known path
PostTo(r, h) ==
    /\ Received(r)
    /\ Request(r).method = "POST"
    /\ HandlerOfPath(Request(r).url.pathname) = h

\* the request body carries fields the handler can extract: a JSON object for
\* the text handler, a multipart form sent as multipart for a file handler
Extractable(r, h) ==
    IF h = "text"
    THEN Request(r).body.kind = "json"
    ELSE /\ Request(r).body.kind = "form"
         /\ Request(r).contentType = "multipart/form-data; boundary=x"

TextMissingOrEmpty(r) == Request(r).body.text \in {{}, {""}}

\* the file parts uploaded under the field the handler reads
NamedFile(r, h) == {f \in Request(r).body.file : f.field = h}

FileHandlers == {"image", "document", "audio"}

\* the allow-lists of the data model
MimeAllowList(h) ==
    CASE h = "image" ->
           {"image/jpeg", "image/png", "image/webp", "image/heic", "image/heif"}
      [] h = "document" ->
           { "application/pdf", "application/msword",
             "application/vnd.openxmlformats-officedocument.wordprocessingml.document",
             "text/plain", "text/markdown" }
      [] h = "audio" ->
           {"audio/mpeg", "audio/mp4", "audio/wav", "audio/ogg", "audio/webm"}

FileRequiredMessage(h) ==
    CASE h = "image" -> "Image file is required"
      [] h = "document" -> "Document file is required"
      [] h = "audio" -> "Audio file is required"

FormatMessage(h) ==
    CASE h = "image" ->
           "Invalid image format. Supported formats: JPEG, PNG, WEBP, HEIC, HEIF"
      [] h = "document" ->
           "Invalid document format. Supported formats: PDF, DOC, DOCX, TXT, MD"
      [] h = "audio" ->
           "Invalid audio format. Supported formats: MP3, MP4, WAV, OGG, WEBM"

CorsHeaderSet ==
    { <<"Access-Control-Allow-Origin", "*">>,
      <<"Access-Control-Allow-Methods", "GET, POST, PUT, DELETE, OPTIONS">>,
      <<"Access-Control-Allow-Headers", "Content-Type, Authorization">> }

\* the request was answered with `status` and {error: <non-empty message>},
\* and the Model Client was never called for it
RejectedWith(r, status) ==
    /\ pc[r] = "done"
    /\ Answered(r)
    /\ Response(r).status = status
    /\ Response(r).body # <<>>
    /\ "error" \in DOMAIN ResponseBody(r)
    /\ ResponseBody(r).error # ""
    /\ calls[r] = <<>>

(***************************************************************************)
(* Route dispatch                                                          *)
(***************************************************************************)
\* C1: a request whose method is neither OPTIONS nor POST and whose path is
\* one of the four known paths is answered 405 without any handler running;
\* a POST whose path is not exactly one of the four known paths (a known path
\* with a trailing slash included) is answered 404 without any handler running.
C1_DispatchRejects ==
    \A r \in Conns :
        Received(r) =>
            /\ ( /\ Request(r).method \notin {"OPTIONS", "POST"}
                 /\ Request(r).url.pathname \in KnownPaths )
               => (RejectedWith(r, 405) /\ handler[r] = "none")
            /\ ( /\ Request(r).method = "POST"
                 /\ Request(r).url.pathname \notin KnownPaths )
               => (RejectedWith(r, 404) /\ handler[r] = "none")

\* a POST to a known path with a trailing slash was answered 404
C1_Witness ==
    \E r \in Conns :
        /\ Received(r)
        /\ Request(r).method = "POST"
        /\ Request(r).url.pathname = "/api/generate-text/"
        /\ RejectedWith(r, 404)
        /\ handler[r] = "none"

\* C2: a request to an unknown path is answered 404 whatever its method other
\* than OPTIONS, and 405 is the answer to a request on a known path only.
C2_UnknownPathIs404 ==
    \A r \in Conns :
        (Received(r) /\ Answered(r)) =>
            /\ ( /\ Request(r).method # "OPTIONS"
                 /\ Request(r).url.pathname \notin KnownPaths )
               => Response(r).status = 404
            /\ Response(r).status = 405 => Request(r).url.pathname \in KnownPaths

\* C3: an OPTIONS request on any path, known or not, is answered 200 with no
\* body and exactly the CORS header set; no handler runs and the Model Client
\* is not called.
C3_Preflight ==
    \A r \in Conns :
        (Received(r) /\ Request(r).method = "OPTIONS") =>
            /\ pc[r] = "done"
            /\ Answered(r)
            /\ Response(r).status = 200
            /\ Response(r).body = <<>>
            /\ Response(r).headers = CorsHeaderSet
            /\ handler[r] = "none"
            /\ calls[r] = <<>>

\* an OPTIONS request on an unknown path was answered
C3_Witness ==
    \E r \in Conns :
        /\ Received(r)
        /\ Request(r).method = "OPTIONS"
        /\ Request(r).url.pathname = "/api/unknown"
        /\ Answered(r)
        /\ Response(r).status = 200

(***************************************************************************)
(* Validation                                                              *)
(***************************************************************************)
\* C4: for each of the four handlers, a POST whose `text` field is missing or
\* empty is answered 400 with an error message, and the Model Client is not
\* called while handling it.
C4_TextRequired ==
    \A r \in Conns : \A h \in {"text"} \cup FileHandlers :
        (PostTo(r, h) /\ TextMissingOrEmpty(r))
            => (RejectedWith(r, 400) /\ handler[r] = h)

\* What holds of the `!text` test itself: when the body carries fields (a JSON
\* object for the text handler, a multipart form for a file handler) in which
\* `text` is missing or empty, the answer is 400 and the Model Client is not
\* called.
TextRequiredOfExtractedBody ==
    \A r \in Conns : \A h \in {"text"} \cup FileHandlers :
        (PostTo(r, h) /\ Extractable(r, h) /\ TextMissingOrEmpty(r))
            => (RejectedWith(r, 400) /\ handler[r] = h)

\* C5: for each file handler, given a non-empty `text`: when the handler's
\* named file field is absent the answer is 400 with the category's "file is
\* required" message; when the file is present and its declared MIME type is
\* not in the category's allow-list the answer is 400 with the category's
\* message listing the supported formats; the Model Client is not called.
C5_FileValidation ==
    \A r \in Conns : \A h \in FileHandlers :
        (PostTo(r, h) /\ Extractable(r, h) /\ ~TextMissingOrEmpty(r)) =>
            /\ NamedFile(r, h) = {}
               => /\ RejectedWith(r, 400)
                  /\ ResponseBody(r).error = FileRequiredMessage(h)
            /\ (\E f \in NamedFile(r, h) : f.type \notin MimeAllowList(h))
               => /\ RejectedWith(r, 400)
                  /\ ResponseBody(r).error = FormatMessage(h)

\* the image handler answered "Image file is required" to a form whose only
\* file part was uploaded under another field name
C5_Witness ==
    \E r \in Conns :
        /\ PostTo(r, "image")
        /\ Extractable(r, "image")
        /\ Request(r).body.text = {"hello"}
        /\ \E f \in Request(r).body.file : f.field = "document" /\ f.type = "image/png"
        /\ RejectedWith(r, 400)
        /\ ResponseBody(r).error = "Image file is required"

\* C6: a file handler accepts a declared type if and only if it is exactly,
\* case-sensitively and with its parameters, one of the five entries of the
\* category's allow-list: an accepted file reaches the Model Client, any
\* other declared type is answered with the format message.
C6_ExactMimeMatch ==
    \A r \in Conns : \A h \in FileHandlers :
        (PostTo(r, h) /\ Extractable(r, h) /\ ~TextMissingOrEmpty(r)) =>
            \A f \in NamedFile(r, h) :
                /\ Cardinality(MimeAllowList(h)) = 5
                /\ f.type \in MimeAllowList(h) <=> calls[r] # <<>>
                /\ f.type \notin MimeAllowList(h)
                   <=> (RejectedWith(r, 400) /\ ResponseBody(r).error = FormatMessage(h))

\* the image handler rejected a file declared as IMAGE/JPEG
C6_Witness ==
    \E r \in Conns :
        /\ PostTo(r, "image")
        /\ Extractable(r, "image")
        /\ ~TextMissingOrEmpty(r)
        /\ \E f \in NamedFile(r, "image") : f.type = "IMAGE/JPEG"
        /\ RejectedWith(r, 400)
        /\ ResponseBody(r).error
             = "Invalid image format. Supported formats: JPEG, PNG, WEBP, HEIC, HEIF"

(***************************************************************************)
(* Model Client outcomes                                                   *)
(***************************************************************************)
\* C7: when every validation passed and the Model Client returned text T, the
\* answer is 200 with body {success: true, data: T, model: M}, M being the
\* model identifier the Model Client was called with: the vision model for
\* the image handler, the text model for the text, document and audio handlers.
C7_SuccessEnvelope ==
    \A r \in Conns :
        Succeeded(r) =>
            /\ pc[r] = "done"
            /\ Len(calls[r]) = 1
            /\ Answered(r)
            /\ Response(r).status = 200
            /\ Response(r).body
                 = << [success |-> TRUE, data |-> settled[r][1].value,
                       model |-> calls[r][1].model] >>
            /\ calls[r][1].model
                 = IF handler[r] = "image" THEN env.GEMINI_VISION_MODEL
                   ELSE env.GEMINI_MODEL

\* the image handler relayed "world" from the vision model
C7_Witness ==
    \E r \in Conns :
        /\ PostTo(r, "image")
        /\ Succeeded(r)
        /\ settled[r][1].value = "world"
        /\ calls[r][1].model = env.GEMINI_VISION_MODEL
        /\ env.GEMINI_VISION_MODEL # env.GEMINI_MODEL
        /\ Response(r).status = 200

\* C8: when the Model Client call fails, the answer is 500 with body
\* {success: false, error: <generic message>}; the body is the same whatever
\* failure was raised, and the failure detail is only logged.
C8_GenericFailure ==
    \A r \in Conns :
        Failed(r) =>
            /\ pc[r] = "done"
            /\ Answered(r)
            /\ Response(r).status = 500
            /\ Response(r).body
                 = << [success |-> FALSE, error |-> "Internal server error"] >>
            /\ logged[r] = << settled[r][1].value >>

\* the Model Client rejected the call of the text handler with a quota error
C8_Witness ==
    \E r \in Conns :
        /\ PostTo(r, "text")
        /\ Failed(r)
        /\ settled[r][1].value = "429 quota exceeded"
        /\ Response(r).status = 500

\* C9: the error message of the 500 answer to a Model Client failure is
\* specific to the handler that was running: failures in two different
\* handlers are answered with different messages.
C9_CategoryMessage ==
    \A r1, r2 \in Conns :
        (Failed(r1) /\ Failed(r2) /\ handler[r1] # handler[r2])
            => ResponseBody(r1).error # ResponseBody(r2).error

(***************************************************************************)
(* Response headers                                                        *)
(***************************************************************************)
\* C10: every response (OPTIONS, 200, 400, 404, 405, 500) carries the three
\* CORS headers: the header set built at the start of fetch is still present
\* after a response merges it with Content-Type: application/json.
C10_CorsOnEveryResponse ==
    \A r \in Conns :
        Answered(r) => CorsHeaderSet \subseteq Response(r).headers

(***************************************************************************)
(* Response envelope                                                       *)
(***************************************************************************)
\* C11: every JSON response body is an envelope in which `success` is a
\* boolean, `data` and `model` are present iff success is true and `error` is
\* present iff success is false, on the 200, 400, 404, 405 and 500 paths.
C11_Envelope ==
    \A r \in Conns :
        (Answered(r) /\ Response(r).body # <<>>) =>
            /\ "success" \in DOMAIN ResponseBody(r)
            /\ ResponseBody(r).success \in BOOLEAN
            /\ "data" \in DOMAIN ResponseBody(r) <=> ResponseBody(r).success
            /\ "model" \in DOMAIN ResponseBody(r) <=> ResponseBody(r).success
            /\ "error" \in DOMAIN ResponseBody(r) <=> ~ResponseBody(r).success

\* C11 as amended: every JSON response body holds exactly one of `data` and
\* `error`.  The 200 body is {success: true, data, model}; the 500 body is
\* {success: false, error}; the 400, 404 and 405 bodies are {error} alone,
\* with no `success` field.
C11_EnvelopeByStatus ==
    \A r \in Conns :
        (Answered(r) /\ Response(r).body # <<>>) =>
            /\ Response(r).status \in {200, 400, 404, 405, 500}
            /\ "data" \in DOMAIN ResponseBody(r) <=> "error" \notin DOMAIN ResponseBody(r)
            /\ Response(r).status = 200
               => /\ DOMAIN ResponseBody(r) = {"success", "data", "model"}
                  /\ ResponseBody(r).success = TRUE
            /\ Response(r).status = 500
               => /\ DOMAIN ResponseBody(r) = {"success", "error"}
                  /\ ResponseBody(r).success = FALSE
            /\ Response(r).status \in {400, 404, 405}
               => DOMAIN ResponseBody(r) = {"error"}

\* a validation error was answered with {error} alone
C11_Witness ==
    \E r \in Conns :
        /\ PostTo(r, "document")
        /\ Answered(r)
        /\ Response(r).status = 400
        /\ Response(r).body = << [error |-> "Document file is required"] >>

(***************************************************************************)
(* Content type of the text handler                                        *)
(***************************************************************************)
\* the declared content types that hold the substring application/json
HoldsApplicationJson(contentType) ==
    contentType \notin {"", "text/plain", "multipart/form-data; boundary=x"}

ContentTypeMessage == "Content type must be application/json"

\* C12: a POST to the text handler whose Content-Type is absent or does not
\* hold the substring application/json is answered 400 with the content-type
\* error whatever its body, the body is not read (nothing is thrown or
\* logged) and the Model Client is not called; a Content-Type that holds
\* application/json, with parameters or not, passes this check.
C12_ContentType ==
    \A r \in Conns :
        PostTo(r, "text") =>
            /\ ~HoldsApplicationJson(Request(r).contentType)
               => /\ RejectedWith(r, 400)
                  /\ ResponseBody(r).error = ContentTypeMessage
                  /\ logged[r] = <<>>
            /\ HoldsApplicationJson(Request(r).contentType)
               => ~( /\ Answered(r)
                     /\ "error" \in DOMAIN ResponseBody(r)
                     /\ ResponseBody(r).error = ContentTypeMessage )

\* a text request with a charset parameter passed the check and reached the
\* Model Client
ContentTypeWithParameterPasses ==
    \E r \in Conns :
        /\ PostTo(r, "text")
        /\ Request(r).contentType = "application/json; charset=utf-8"
        /\ calls[r] # <<>>

\* a text request without Content-Type and with an unparseable body was
\* answered with the content-type error
C12_Witness ==
    \E r \in Conns :
        /\ PostTo(r, "text")
        /\ Request(r).contentType = ""
        /\ Request(r).body.kind = "garbage"
        /\ RejectedWith(r, 400)
        /\ ResponseBody(r).error = ContentTypeMessage

(***************************************************************************)
(* Upload size                                                             *)
(***************************************************************************)
\* C13: on every file endpoint an uploaded file of exactly 10 * 1024 * 1024
\* bytes with an allowed MIME type is accepted and reaches the Model Client,
\* and a file of 10 * 1024 * 1024 + 1 bytes is rejected before any handler
\* logic runs, the Model Client never being called for it.
C13_UploadLimit ==
    \A r \in Conns : \A h \in FileHandlers :
        (PostTo(r, h) /\ Extractable(r, h) /\ ~TextMissingOrEmpty(r)) =>
            \A f \in NamedFile(r, h) :
                f.type \in MimeAllowList(h) =>
                    /\ f.size = 10 * 1024 * 1024 => calls[r] # <<>>
                    /\ f.size = 10 * 1024 * 1024 + 1
                       => /\ calls[r] = <<>>
                          /\ handler[r] = "none"
                          /\ pc[r] = "done"

\* What the handlers do: no handler reads the size of the file to accept or
\* reject it; a file of either size with an allowed type reaches the Model
\* Client.
UploadSizeNotChecked ==
    \A r \in Conns : \A h \in FileHandlers :
        (PostTo(r, h) /\ Extractable(r, h) /\ ~TextMissingOrEmpty(r)) =>
            \A f \in NamedFile(r, h) :
                f.type \in MimeAllowList(h) => Len(calls[r]) = 1

(***************************************************************************)
(* Requests in flight together                                             *)
(***************************************************************************)
\* everything the server holds about connection r
ConnState(r) ==
    <<pc[r], req[r], handler[r], calls[r], settled[r], resp[r], logged[r]>>

\* two connections that carry the same request and saw the same Model Client
\* outcome have made the same calls and hold the same response
SameRequestSameResponse ==
    \A r1, r2 \in Conns :
        (req[r1] = req[r2] /\ settled[r1] = settled[r2] /\ pc[r1] = pc[r2])
            => /\ resp[r1] = resp[r2]
               /\ calls[r1] = calls[r2]
               /\ handler[r1] = handler[r2]

\* a connection suspended in its Model Client call keeps no other connection
\* from being dispatched, validated and answered, nor from settling its own call
SuspendedDoesNotBlock ==
    \A r1, r2 \in Conns :
        (r1 # r2 /\ pc[r1] = "calling") =>
            /\ pc[r2] = "idle"
               => /\ ENABLED Preflight(r2, ConcRequests)
                  /\ ENABLED MethodNotAllowed(r2, ConcRequests)
                  /\ ENABLED RouteNotFound(r2, ConcRequests)
                  /\ ENABLED GenerateText(r2, ConcRequests)
                  /\ ENABLED GenerateFromImage(r2, ConcRequests)
                  /\ ENABLED GenerateFromDocument(r2, ConcRequests)
                  /\ ENABLED GenerateFromAudio(r2, ConcRequests)
            /\ pc[r2] = "calling"
               => /\ ENABLED ModelResolve(r2, "world")
                  /\ ENABLED ModelReject(r2, "429 quota exceeded")

\* a step taken for one connection reads and writes that connection's state
\* only: the state of every other connection and the configuration stay as
\* they were
OneConnectionPerStep ==
    /\ env' = env
    /\ \E r \in Conns : \A q \in Conns \ {r} : ConnState(q)' = ConnState(q)

\* C14: with several requests in flight, under every interleaving, each
\* response depends only on the request's own method, path, body and Model
\* Client outcome; no step for one request touches the state of another; a
\* request suspended in its Model Client call keeps no other request from
\* being validated, dispatched and answered.
C14_Independence ==
    /\ [](SameRequestSameResponse /\ SuspendedDoesNotBlock)
    /\ [][OneConnectionPerStep]_vars

\* one request is suspended in the Model Client while another, received on a
\* second connection, has been answered with the model's text
C14_Witness ==
    \E r1, r2 \in Conns :
        /\ r1 # r2
        /\ pc[r1] = "calling"
        /\ PostTo(r1, "image")
        /\ PostTo(r2, "text")
        /\ Succeeded(r2)
        /\ Response(r2).status = 200

(***************************************************************************)
(* The life of one request                                                 *)
(***************************************************************************)
\* every validation of handler h has passed on the request of connection r
ValidationsPassed(r, h) ==
    /\ PostTo(r, h)
    /\ Extractable(r, h)
    /\ ~TextMissingOrEmpty(r)
    /\ h = "text" => HoldsApplicationJson(Request(r).contentType)
    /\ h \in FileHandlers
       => /\ NamedFile(r, h) # {}
          /\ \A f \in NamedFile(r, h) : f.type \in MimeAllowList(h)

\* the states of the machine, read off the connection
Calling(r) == pc[r] = "calling" /\ calls[r] # <<>> /\ ~Answered(r)
Terminal(r, status) ==
    pc[r] = "done" /\ Len(resp[r]) = 1 /\ Response(r).status = status

\* at most one Model Client call, made only after every validation of the
\* handler; exactly one response at the end and none before; no call behind a
\* 400, 404 or 405
OneCallOneResponse ==
    \A r \in Conns :
        /\ Len(calls[r]) <= 1
        /\ Len(resp[r]) <= 1
        /\ pc[r] = "done" <=> Answered(r)
        /\ calls[r] # <<>>
           => \E h \in {"text"} \cup FileHandlers :
                  handler[r] = h /\ ValidationsPassed(r, h)
        /\ pc[r] = "calling" => Calling(r)
        /\ (Answered(r) /\ Response(r).status \in {400, 404, 405})
           => calls[r] = <<>>

\* C15: a request given to a handler ends Rejected(400) out of validation, or
\* goes through Calling and ends Succeeded(200) or Failed(500); the Model
\* Client is invoked at most once, only after every validation of the handler;
\* the request ends in exactly one response; a request answered 400, 404 or
\* 405 never invoked the Model Client.
C15_StateMachine ==
    /\ OneCallOneResponse
    /\ \A r \in Conns : \A h \in {"text"} \cup FileHandlers :
           (PostTo(r, h) /\ pc[r] = "done") =>
               \/ Terminal(r, 400) /\ calls[r] = <<>>
               \/ Terminal(r, 200) /\ Len(calls[r]) = 1
               \/ Terminal(r, 500) /\ Len(calls[r]) = 1

\* What holds of the machine once the extraction of the body is set aside: a
\* request whose body was extracted ends 400 without a call, or 200 or 500
\* after exactly one call.
StateMachineOfExtractedBody ==
    /\ OneCallOneResponse
    /\ \A r \in Conns : \A h \in {"text"} \cup FileHandlers :
           (PostTo(r, h) /\ Extractable(r, h) /\ pc[r] = "done") =>
               \/ Terminal(r, 400) /\ calls[r] = <<>>
               \/ Terminal(r, 200) /\ Len(calls[r]) = 1
               \/ Terminal(r, 500) /\ Len(calls[r]) = 1

(***************************************************************************)
(* Request extraction                                                      *)
(***************************************************************************)
\* C16: request extraction yields the fields of the body or fails with a
\* validation error answered 400 with {error: <message>}: a POST to the text
\* handler that declares application/json with a body that is not parseable
\* JSON, and a POST to a file handler whose body is not parseable multipart
\* form data, are answered 400, never 500, and the Model Client is not called.
C16_ExtractionFailureIs400 ==
    \A r \in Conns : \A h \in {"text"} \cup FileHandlers :
        ( /\ PostTo(r, h)
          /\ ~Extractable(r, h)
          /\ h = "text" => HoldsApplicationJson(Request(r).contentType) )
            => /\ RejectedWith(r, 400)
               /\ DOMAIN ResponseBody(r) = {"error"}

\* What the server does with a body it cannot extract: the throw of
\* req.json() or req.formData() is caught by fetch and answered 500 with the
\* generic envelope; the Model Client is not called.
ExtractionFailureIs500 ==
    \A r \in Conns : \A h \in {"text"} \cup FileHandlers :
        ( /\ PostTo(r, h)
          /\ ~Extractable(r, h)
          /\ h = "text" => HoldsApplicationJson(Request(r).contentType) )
            => /\ pc[r] = "done"
               /\ Answered(r)
               /\ Response(r).status = 500
               /\ ResponseBody(r) = [success |-> FALSE, error |-> "Internal server error"]
               /\ calls[r] = <<>>
               /\ logged[r] # <<>>

(***************************************************************************)
(* Order of the validations                                                *)
(***************************************************************************)
TextRequiredMessage == "Text prompt is required"

\* C17: in every file handler the validations run in the order text present,
\* file present, MIME allowed, and the first failing one alone decides the
\* response: with `text` missing or empty the answer carries the text message
\* whatever the file (missing, or of a disallowed MIME type); the "file is
\* required" message is given only to a request with a text, and the format
\* message only to a request with a text and a file.
C17_ValidationOrder ==
    \A r \in Conns : \A h \in FileHandlers :
        (PostTo(r, h) /\ Extractable(r, h)) =>
            /\ RejectedWith(r, 400) <=>
                  \/ TextMissingOrEmpty(r)
                  \/ NamedFile(r, h) = {}
                  \/ \E f \in NamedFile(r, h) : f.type \notin MimeAllowList(h)
            /\ RejectedWith(r, 400) =>
                  ResponseBody(r) =
                      [error |->
                          IF TextMissingOrEmpty(r) THEN TextRequiredMessage
                          ELSE IF NamedFile(r, h) = {} THEN FileRequiredMessage(h)
                          ELSE FormatMessage(h)]

\* an audio request with an empty `text` and a file of a disallowed MIME type
\* was answered with the text message
C17_Witness ==
    \E r \in Conns :
        /\ PostTo(r, "audio")
        /\ Extractable(r, "audio")
        /\ Request(r).body.text = {""}
        /\ \E f \in NamedFile(r, "audio") : f.type \notin MimeAllowList("audio")
        /\ RejectedWith(r, 400)
        /\ ResponseBody(r).error = TextRequiredMessage

\* a request missing both `text` and the file was answered with the text
\* message
MissingBothGetsTextMessage ==
    \E r \in Conns : \E h \in FileHandlers :
        /\ PostTo(r, h)
        /\ Extractable(r, h)
        /\ Request(r).body.text = {}
        /\ Request(r).body.file = {}
        /\ RejectedWith(r, 400)
        /\ ResponseBody(r).error = TextRequiredMessage

====
